---- MODULE Spec2Model ----
(***************************************************************************)
(* The template-library modal layout of Elementor                          *)
(* (assets/dev/js/editor/components/template-library/views/library-layout) *)
(* as a state machine: four Marionette regions, the sub-views the layout's *)
(* handlers create, and the region mutations of each handler in the order  *)
(* the code performs them.                                                 *)
(***************************************************************************)
EXTENDS Naturals, Sequences, FiniteSets

\* ---------------------------------------------------------------- bounds
\* Number of handler calls in one behaviour.
MaxCalls == 4
\* Largest numeric access level a template row carries (0..MaxAccessLevel).
MaxAccessLevel == 3
\* Longest chain of callbacks registered on the action-button filter.
MaxFilters == 1
\* Number of template rows rendered in one behaviour.
MaxRenders == 2
\* Number of handler calls in one behaviour in which a collaborator may fail.
MaxFaultCalls == 3
\* Largest `retries` argument of isUiStable (0..MaxRetries).
MaxRetries == 3
\* Number of screenshot comparisons followed in one run of isUiStable.
MaxComparisons == 5
\* Length of the JSON text of a template file (0..MaxTemplateLen characters).
MaxTemplateLen == 7
\* Number of calls of setSwitcherControlValue in one behaviour.
MaxSwitcherCalls == 3

\* ---------------------------------------------------------------- values
\* The regions of the modal: headerView.logoArea, headerView.tools,
\* headerView.menuArea and this.modalContent.
Regions == {"logoArea", "tools", "menuArea", "modalContent"}

\* An empty region (region.currentView is undefined).
NoView == 0

\* A value bound to nothing (a constructor called without options).
None == "none"

\* Arguments the command layer passes to the handlers.
Collections == {"collectionA", "collectionB"}
ConnectArgs == {"argsA", "argsB"}
ElementModels == {"modelX", "modelY"}

\* Switcher controls of the editor panel the tests set.
ControlIds == {"_mask_switch", "show_title"}
TemplateModels == {"templateA", "templateB"}

\* templateModel.get( 'url' )
Url(templateModel) == "url:" \o templateModel

VARIABLES
    currentView,  \* region name -> id of its occupant, NoView when empty
    views,        \* every sub-view created so far; the id of a view is its index
    pc,           \* the statements the running handler has still to execute
    trace,        \* the region mutations of the running (or last) handler
    calls,        \* the handler calls so far, each with the regions it started from
    returns,      \* the regions at the return of each completed call
    renders,      \* the action buttons rendered so far
    fault,        \* failure of a collaborator: whether one can occur, and where one did
    ui,           \* EditorPage.isUiStable: its locals and its position
    tpl,          \* EditorPage.loadTemplate / loadJsonPageTemplate: file, flag, import
    switcher      \* EditorPage.setSwitcherControlValue: the switches and the calls made

vars == <<currentView, views, pc, trace, calls, returns, renders, fault, ui, tpl, switcher>>

\* ----------------------------------------------------------- Region
\* A freshly constructed sub-view: not destroyed yet.
NewView(kind, binding) == [kind |-> kind, binding |-> binding, destroyed |-> 0]

\* view.destroy(): one release of the view's resources.
Destroy(vs, id) == [vs EXCEPT ![id].destroyed = @ + 1]

\* A region mutation acts on the pair (occupants, views).
LayoutState(cv, vs) == [cv |-> cv, vs |-> vs]

\* Faulty variant of reset: destroys the occupant but keeps referring to it.
reset_keepsOccupant(st, r) ==
    IF st.cv[r] = NoView THEN st
    ELSE LayoutState(st.cv, Destroy(st.vs, st.cv[r]))

\* Region.reset(): destroys the occupant if there is one, leaves the region
\* empty; nothing happens on an empty region.
reset(st, r) ==
    IF st.cv[r] = NoView THEN st
    ELSE LayoutState([st.cv EXCEPT ![r] = NoView], Destroy(st.vs, st.cv[r]))

\* Faulty variant of show: installs the new view without destroying the occupant.
show_leaksOccupant(st, r, view) ==
    LayoutState([st.cv EXCEPT ![r] = Len(st.vs) + 1], Append(st.vs, view))

\* Region.show( view ): destroys the occupant if there is one, then installs
\* and renders view.
show(st, r, view) ==
    LET emptied == reset(st, r)
        id == Len(emptied.vs) + 1
    IN LayoutState([emptied.cv EXCEPT ![r] = id], Append(emptied.vs, view))

\* ------------------------------------------------------- statements
\* region.reset()
Reset(r) == [stmt |-> "reset", region |-> r, kind |-> None, binding |-> None]

\* region.show( new Kind( binding ) )
Show(r, kind, binding) == [stmt |-> "show", region |-> r, kind |-> kind, binding |-> binding]

\* ---------------------------------------------------------- handlers
\* getLogoOptions: the options of the logo view.
getLogoOptions == [title |-> "Library", click |-> "library/open"]

\* Layout.showLogo() of the base modal layout: the logo area shows a new
\* logo view built from getLogoOptions().
showLogo == << Show("logoArea", "LogoView", getLogoOptions.title) >>

\* Faulty variant: the menu is toggled, hidden when it is already shown.
setHeaderDefaultParts_toggleMenu ==
    << Show("tools", "HeaderActionsView", None),
       IF currentView["menuArea"] # NoView
       THEN Reset("menuArea")
       ELSE Show("menuArea", "HeaderMenuView", None) >> \o showLogo

\* Faulty variant: the menu view is never shown.
setHeaderDefaultParts_noMenu ==
    << Show("tools", "HeaderActionsView", None) >> \o showLogo

\* Faulty variant: the logo is shown only when the logo area is empty.
setHeaderDefaultParts_keepsLogo ==
    << Show("tools", "HeaderActionsView", None),
       Show("menuArea", "HeaderMenuView", None) >>
    \o (IF currentView["logoArea"] = NoView THEN showLogo ELSE <<>>)

\* Faulty variant: the content region is emptied before the header is built.
setHeaderDefaultParts_clearsContent ==
    << Reset("modalContent"),
       Show("tools", "HeaderActionsView", None),
       Show("menuArea", "HeaderMenuView", None) >> \o showLogo

setHeaderDefaultParts ==
    << Show("tools", "HeaderActionsView", None),
       Show("menuArea", "HeaderMenuView", None) >> \o showLogo

\* Faulty variant: the collection view is constructed without the collection.
showTemplatesView_noCollection(templatesCollection) ==
    << Show("modalContent", "CollectionView", None) >>

\* Faulty variant: the default header parts are rebuilt with the template list.
showTemplatesView_restoresHeader(templatesCollection) ==
    << Show("tools", "HeaderActionsView", None),
       Show("menuArea", "HeaderMenuView", None),
       Show("logoArea", "LogoView", getLogoOptions.title),
       Show("modalContent", "CollectionView", templatesCollection) >>

showTemplatesView(templatesCollection) ==
    << Show("modalContent", "CollectionView", templatesCollection) >>

\* Faulty variant: the menu region is not reset.
showImportView_noReset ==
    << Show("modalContent", "ImportView", None),
       Show("logoArea", "HeaderBackView", None) >>

showImportView ==
    << Reset("menuArea"),
       Show("modalContent", "ImportView", None),
       Show("logoArea", "HeaderBackView", None) >>

\* Faulty variant: the header regions the connect screen does not use are reset too.
showConnectView_resetsHeader(args) ==
    << Reset("menuArea"),
       Reset("tools"),
       Reset("logoArea"),
       Show("modalContent", "ConnectView", args) >>

\* Faulty variant: the menu region is not reset.
showConnectView_noReset(args) ==
    << Show("modalContent", "ConnectView", args) >>

showConnectView(args) ==
    << Reset("menuArea"),
       Show("modalContent", "ConnectView", args) >>

\* Faulty variant: the save-template view is constructed without its model.
showSaveTemplateView_noModel(elementModel) ==
    << Reset("menuArea"),
       Show("modalContent", "SaveTemplateView", None) >>

showSaveTemplateView(elementModel) ==
    << Reset("menuArea"),
       Show("modalContent", "SaveTemplateView", elementModel) >>

\* Faulty variant: the preview view is given the model in place of its url.
showPreviewView_modelAsUrl(templateModel) ==
    << Show("modalContent", "PreviewView", templateModel),
       Reset("menuArea"),
       Show("tools", "HeaderPreviewView", templateModel),
       Show("logoArea", "HeaderBackView", None) >>

\* Faulty variant: the menu region is reset after the tools region is shown.
showPreviewView_resetLate(templateModel) ==
    << Show("modalContent", "PreviewView", Url(templateModel)),
       Show("tools", "HeaderPreviewView", templateModel),
       Reset("menuArea"),
       Show("logoArea", "HeaderBackView", None) >>

showPreviewView(templateModel) ==
    << Show("modalContent", "PreviewView", Url(templateModel)),
       Reset("menuArea"),
       Show("tools", "HeaderPreviewView", templateModel),
       Show("logoArea", "HeaderBackView", None) >>

\* --------------------------------------------------- action button
InsertButton == "#tmpl-elementor-template-library-insert-button"
GetProButton == "#tmpl-elementor-template-library-get-pro-button"
ActionButtonHook == "elementor/editor/template-library/template/action-button"

\* The rows of the template data source: only the access level is read.
TemplateData == [accessLevel : 0..MaxAccessLevel]

\* Callbacks an extension can register on the action-button filter.
FilterCallbacks == {"keep", "activateLicense"}

\* One registered callback applied to ( viewId, templateData ).
FilterCallback(callback, viewId, templateData) ==
    IF callback = "activateLicense" /\ templateData.accessLevel # 0
    THEN "#tmpl-elementor-pro-template-library-activate-license-button"
    ELSE viewId

RECURSIVE applyFilters(_, _, _)
\* elementor.hooks.applyFilters( hook, value, data ): the registered callbacks
\* in order, each given the value the previous one returned.
applyFilters(chain, value, data) ==
    IF chain = <<>> THEN value
    ELSE applyFilters(Tail(chain), FilterCallback(Head(chain), value, data), data)

\* buttonTextsFromAccessLevel[ accessLevel ]
buttonTextsFromAccessLevel(accessLevel) ==
    CASE accessLevel = 0 -> "null"
      [] accessLevel = 1 -> "Go Pro"
      [] accessLevel = 2 -> "Go Expert"
      [] OTHER -> "undefined"

\* One call of elementor.hooks.applyFilters on the action-button hook.
FilterCall(value, data) == [hook |-> ActionButtonHook, value |-> value, data |-> data]

\* Faulty variant: the filter chain is called but its result is dropped, the
\* template looked up is the computed one.
getTemplateActionButton_dropsFiltered(templateData, chain) ==
    LET computed == IF templateData.accessLevel # 0 THEN GetProButton ELSE InsertButton
    IN [filterCalls |-> << FilterCall(computed, templateData) >>,
        computed |-> computed,
        template |-> computed,
        buttonText |-> buttonTextsFromAccessLevel(templateData.accessLevel)]

\* Faulty variant: the comparison with 0 is inverted.
getTemplateActionButton_inverted(templateData, chain) ==
    LET computed == IF templateData.accessLevel = 0 THEN GetProButton ELSE InsertButton
        viewId == applyFilters(chain, computed, templateData)
    IN [filterCalls |-> << FilterCall(computed, templateData) >>,
        computed |-> computed,
        template |-> viewId,
        buttonText |-> buttonTextsFromAccessLevel(templateData.accessLevel)]

\* Faulty variant: an access level the text table does not know is treated as
\* level 0.
getTemplateActionButton_unknownAsCore(templateData, chain) ==
    LET known == templateData.accessLevel \in {1, 2}
        computed == IF known THEN GetProButton ELSE InsertButton
        viewId == applyFilters(chain, computed, templateData)
    IN [filterCalls |-> << FilterCall(computed, templateData) >>,
        computed |-> computed,
        template |-> viewId,
        buttonText |-> IF known THEN buttonTextsFromAccessLevel(templateData.accessLevel)
                       ELSE "null"]

\* Faulty variant: the text is dropped when a callback replaced the identifier.
getTemplateActionButton_textByTemplate(templateData, chain) ==
    LET computed == IF templateData.accessLevel # 0 THEN GetProButton ELSE InsertButton
        viewId == applyFilters(chain, computed, templateData)
    IN [filterCalls |-> << FilterCall(computed, templateData) >>,
        computed |-> computed,
        template |-> viewId,
        buttonText |-> IF viewId = computed
                       THEN buttonTextsFromAccessLevel(templateData.accessLevel)
                       ELSE "null"]

\* getTemplateActionButton( templateData ) under the registered filter chain:
\* the calls of the filter chain, the identifier computed, the template looked
\* up and the text rendered.
getTemplateActionButton(templateData, chain) ==
    LET computed == IF templateData.accessLevel # 0 THEN GetProButton ELSE InsertButton
        viewId == applyFilters(chain, computed, templateData)
    IN [filterCalls |-> << FilterCall(computed, templateData) >>,
        computed |-> computed,
        template |-> viewId,
        buttonText |-> buttonTextsFromAccessLevel(templateData.accessLevel)]

\* ------------------------------------------------------------ actions
\* The layout after construction: empty regions, no handler called yet.
InitLayout ==
    /\ currentView = [r \in Regions |-> NoView]
    /\ views = <<>>
    /\ pc = <<>>
    /\ trace = <<>>
    /\ calls = <<>>
    /\ returns = <<>>
    /\ renders = <<>>

\* No collaborator fails / one failure of a collaborator is still to come.
NoFault == [mode |-> "off", call |-> 0, step |-> 0]
ArmedFault == [mode |-> "armed", call |-> 0, step |-> 0]

\* The page-object helpers of the test harness have not been called.
UiIdle == [pc |-> "idle", retries |-> 0, retry |-> 0, comparisons |-> 0,
           beforeImage |-> None, afterImage |-> None]
TplIdle == [pc |-> "idle", file |-> <<>>, flag |-> FALSE, fn |-> None,
            imported |-> [content |-> <<>>, wrapped |-> FALSE]]
SwitcherIdle == [checked |-> [c \in ControlIds |-> FALSE], log |-> <<>>]

Init ==
    /\ InitLayout
    /\ fault = NoFault
    /\ ui = UiIdle
    /\ tpl = TplIdle
    /\ switcher = SwitcherIdle

\* No handler is running.
Idle == pc = <<>>

\* Faulty variant: no handler can be called while the preview screen is shown.
CanCall_blockedOnPreview ==
    /\ Idle
    /\ Len(calls) < MaxCalls
    /\ ~(/\ currentView["modalContent"] # NoView
         /\ views[currentView["modalContent"]].kind = "PreviewView")

\* Faulty variant: a handler is entered while another one is still running.
CanCall_reentrant == Len(calls) < MaxCalls

\* The command layer calls a handler only when none is running (handlers run
\* to completion on the UI thread); MaxCalls bounds the operations of the
\* behaviour, handler calls and action-button resolutions alike.
CanCall ==
    /\ Idle
    /\ Len(calls) + Len(renders) < (IF fault.mode = "off" THEN MaxCalls ELSE MaxFaultCalls)

\* Entry into a handler: its body is what remains to execute.
Enter(op, arg, body, via) ==
    /\ pc' = body
    /\ calls' = Append(calls, [op |-> op, arg |-> arg, before |-> currentView,
                               nviews |-> Len(views), via |-> via])
    /\ trace' = <<>>
    /\ UNCHANGED <<currentView, views, returns, renders, fault, ui, tpl, switcher>>

\* Entry into a handler called by the command layer.
Begin(op, arg, body) == Enter(op, arg, body, "command")

CallSetHeaderDefaultParts ==
    /\ CanCall
    /\ Begin("setHeaderDefaultParts", None, setHeaderDefaultParts)

CallShowTemplatesView ==
    \E templatesCollection \in Collections :
        /\ CanCall
        /\ Begin("showTemplatesView", templatesCollection, showTemplatesView(templatesCollection))

CallShowImportView ==
    /\ CanCall
    /\ Begin("showImportView", None, showImportView)

CallShowConnectView ==
    \E args \in ConnectArgs :
        /\ CanCall
        /\ Begin("showConnectView", args, showConnectView(args))

CallShowSaveTemplateView ==
    \E elementModel \in ElementModels :
        /\ CanCall
        /\ Begin("showSaveTemplateView", elementModel, showSaveTemplateView(elementModel))

CallShowPreviewView ==
    \E templateModel \in TemplateModels :
        /\ CanCall
        /\ Begin("showPreviewView", templateModel, showPreviewView(templateModel))

\* $e.run( 'library/open', { toDefault: true } ): the library component goes
\* back to the default screen, rebuilding the header through
\* setHeaderDefaultParts.
runLibraryOpen == setHeaderDefaultParts

\* A click on the logo view runs the click callback of getLogoOptions; the
\* browser delivers the event only when no handler is running.
LogoClick ==
    /\ CanCall
    /\ currentView["logoArea"] # NoView
    /\ views[currentView["logoArea"]].kind = "LogoView"
    /\ Enter("setHeaderDefaultParts", None, runLibraryOpen, getLogoOptions.click)

\* The views a mutation released: those whose destroy count went up.
Released(before, after) ==
    {id \in 1..Len(before.vs) : after.vs[id].destroyed > before.vs[id].destroyed}

\* Faulty variant: the back view shown in the logo area is the instance the
\* tools region holds, not a new one.
Exec_sharesInstance(st, s) ==
    IF s.stmt = "reset" THEN reset(st, s.region)
    ELSE IF s.region = "logoArea" /\ st.cv["tools"] # NoView
    THEN LET emptied == reset(st, s.region)
         IN LayoutState([emptied.cv EXCEPT ![s.region] = st.cv["tools"]], emptied.vs)
    ELSE show(st, s.region, NewView(s.kind, s.binding))

\* Faulty variant: a view of the same kind and binding built by an earlier
\* statement is kept and shown again in place of a new one.
Exec_cachesView(st, s) ==
    LET cached == {id \in 1..Len(st.vs) :
                      st.vs[id].kind = s.kind /\ st.vs[id].binding = s.binding}
    IN IF s.stmt = "reset" THEN reset(st, s.region)
       ELSE IF cached # {}
       THEN LET emptied == reset(st, s.region)
                id == CHOOSE c \in cached : \A d \in cached : c <= d
            IN LayoutState([emptied.cv EXCEPT ![s.region] = id], emptied.vs)
       ELSE show(st, s.region, NewView(s.kind, s.binding))

\* One statement of a handler body on the layout.
Exec(st, s) ==
    IF s.stmt = "reset" THEN reset(st, s.region)
    ELSE show(st, s.region, NewView(s.kind, s.binding))

\* The running handler executes its next statement; after the last one it
\* returns.
Step ==
    /\ pc # <<>>
    /\ LET s == Head(pc)
           before == LayoutState(currentView, views)
           after == Exec(before, s)
       IN /\ currentView' = after.cv
          /\ views' = after.vs
          /\ trace' = Append(trace, [stmt |-> s.stmt, region |-> s.region,
                                     was |-> currentView[s.region],
                                     now |-> after.cv[s.region],
                                     released |-> Released(before, after)])
          /\ pc' = Tail(pc)
          /\ returns' = IF Tail(pc) = <<>> THEN Append(returns, after.cv) ELSE returns
    /\ UNCHANGED <<calls, renders, fault, ui, tpl, switcher>>

Next ==
    \/ CallSetHeaderDefaultParts
    \/ CallShowTemplatesView
    \/ CallShowImportView
    \/ CallShowConnectView
    \/ CallShowSaveTemplateView
    \/ CallShowPreviewView
    \/ LogoClick
    \/ Step

Spec == Init /\ [][Next]_vars

\* The failure recorded when statement `step` of call `call` throws.
Thrown(call, step) == [mode |-> "thrown", call |-> call, step |-> step]

\* Faulty variant: the handler catches the failure and goes on with its next
\* statement.
Throw_swallowed ==
    /\ pc # <<>>
    /\ Head(pc).stmt = "show"
    /\ fault.mode = "armed"
    /\ fault' = Thrown(Len(calls), Len(trace) + 1)
    /\ pc' = Tail(pc)
    /\ returns' = IF Tail(pc) = <<>> THEN Append(returns, currentView) ELSE returns
    /\ UNCHANGED <<currentView, views, trace, calls, renders, ui, tpl, switcher>>

\* The constructor of the sub-view of the next show (or the evaluation of its
\* options, such as templateModel.get( 'url' )) throws: no handler has a
\* try/catch, so the handler is left at once and the caller gets the failure,
\* with the regions as they are.
Throw ==
    /\ pc # <<>>
    /\ Head(pc).stmt = "show"
    /\ fault.mode = "armed"
    /\ fault' = Thrown(Len(calls), Len(trace) + 1)
    /\ pc' = <<>>
    /\ returns' = Append(returns, currentView)
    /\ UNCHANGED <<currentView, views, trace, calls, renders, ui, tpl, switcher>>

\* The layout with one collaborator failure possible in the behaviour.
InitFail ==
    /\ InitLayout
    /\ fault = ArmedFault
    /\ ui = UiIdle
    /\ tpl = TplIdle
    /\ switcher = SwitcherIdle

NextFail ==
    \/ Next
    \/ Throw

SpecFail == InitFail /\ [][NextFail]_vars

\* The template list renders the action button of one row.
FilterChains == UNION {[1..n -> FilterCallbacks] : n \in 0..MaxFilters}

RenderActionButton ==
    \E templateData \in TemplateData, chain \in FilterChains :
        /\ Len(renders) < MaxRenders
        /\ renders' = Append(renders, [templateData |-> templateData, chain |-> chain,
                                       out |-> getTemplateActionButton(templateData, chain)])
        /\ UNCHANGED <<currentView, views, pc, trace, calls, returns, fault, ui, tpl, switcher>>

NextButton == RenderActionButton

SpecButton == Init /\ [][NextButton]_vars

\* A template row of the collection view the content region shows resolves its
\* action button, between two handler calls.
RenderRow ==
    /\ CanCall
    /\ currentView["modalContent"] # NoView
    /\ views[currentView["modalContent"]].kind = "CollectionView"
    /\ RenderActionButton

\* The library in use: handler calls, one of which may fail, and the rows of
\* the template list resolving their action buttons.
NextFrame ==
    \/ NextFail
    \/ RenderRow

SpecFrame == InitFail /\ [][NextFrame]_vars

\* -------------------------------------------------------- isUiStable
\* What locator.screenshot() can return: the element as it looks at that moment.
Images == {"imageA", "imageB"}

\* getComparator( 'image/png' ): null when the two screenshots are equal, a
\* mismatch report otherwise.
comparator(beforeImage, afterImage) ==
    IF beforeImage = afterImage THEN "null" ELSE "mismatch"

\* x++ : the value of the expression is the old x, the variable becomes x + 1.
PostIncrement(x) == [value |-> x, variable |-> x + 1]

\* retry = retry++ : the increment is applied first, then the assignment
\* stores the value of the expression.
AssignPostIncrement(retry) == PostIncrement(retry).value

\* isUiStable( locator, retries, timeout ) is called: retry = 0, no screenshot yet.
InitUiStable ==
    /\ InitLayout
    /\ fault = NoFault
    /\ tpl = TplIdle
    /\ switcher = SwitcherIdle
    /\ \E retries \in 0..MaxRetries :
          ui = [pc |-> "do", retries |-> retries, retry |-> 0, comparisons |-> 0,
                beforeImage |-> None, afterImage |-> None]

\* Top of the loop body: if ( retry === retries ) break.
UiBreak ==
    /\ ui.pc = "do"
    /\ ui.retry = ui.retries
    /\ ui' = [ui EXCEPT !.pc = "done"]
    /\ UNCHANGED <<currentView, views, pc, trace, calls, returns, renders, fault, tpl, switcher>>

\* The rest of the loop body: the before screenshot, the wait of `timeout`
\* milliseconds, the after screenshot, and retry = retry++.
UiScreenshots ==
    /\ ui.pc = "do"
    /\ ui.retry # ui.retries
    /\ ui.comparisons < MaxComparisons
    /\ \E beforeImage \in Images, afterImage \in Images :
          ui' = [ui EXCEPT !.pc = "while",
                           !.beforeImage = beforeImage,
                           !.afterImage = afterImage,
                           !.retry = AssignPostIncrement(ui.retry)]
    /\ UNCHANGED <<currentView, views, pc, trace, calls, returns, renders, fault, tpl, switcher>>

\* The loop condition: while ( null !== comparator( beforeImage, afterImage ) ).
UiCompare ==
    /\ ui.pc = "while"
    /\ ui' = [ui EXCEPT !.comparisons = @ + 1,
                        !.pc = IF comparator(ui.beforeImage, ui.afterImage) # "null"
                               THEN "do" ELSE "done"]
    /\ UNCHANGED <<currentView, views, pc, trace, calls, returns, renders, fault, tpl, switcher>>

NextUiStable ==
    \/ UiBreak
    \/ UiScreenshots
    \/ UiCompare

SpecUiStable == InitUiStable /\ [][NextUiStable]_vars

\* ------------------------------------------------- template import
\* Template data is modelled by its JSON text, a sequence of characters: a
\* digit of a date stored in the file, a slash, any other character.
FileChars == {"1", "/", "a"}

\* The digit the current year and month are written with.
Digits == {"1", "9"}

\* `${ date.getFullYear() }/${ month }`: four digits, a slash, two digits.
CurrentDate == << "9", "9", "9", "9", "/", "9", "9" >>

\* The template files of the tests.
TemplateFiles == UNION {[1..n -> FileChars] : n \in 0..MaxTemplateLen}

\* A match of /[0-9]{4}\/[0-9]{2}/ at the head of text.
DateAtHead(text) ==
    /\ Len(text) >= Len(CurrentDate)
    /\ \A i \in {1, 2, 3, 4, 6, 7} : text[i] \in Digits
    /\ text[5] = "/"

RECURSIVE ReplaceDates(_)
\* data.replace( /[0-9]{4}\/[0-9]{2}/g, currentDate ): every match, leftmost
\* first, the search going on behind each match.
ReplaceDates(text) ==
    IF text = <<>> THEN <<>>
    ELSE IF DateAtHead(text)
    THEN CurrentDate \o ReplaceDates(SubSeq(text, Len(CurrentDate) + 1, Len(text)))
    ELSE << Head(text) >> \o ReplaceDates(Tail(text))

\* updateImageDates( templateData ): JSON.stringify, the replacement,
\* JSON.parse; the result is a new value, templateData itself is not changed.
updateImageDates(templateData) == ReplaceDates(templateData)

\* The `data` given to $e.run( 'document/elements/import', ... ).
Imported(content, wrapped) == [content |-> content, wrapped |-> wrapped]

\* loadTemplate( filePath, updateDatesForImages ): templateData is reassigned
\* to the updated data when the flag is set, and imported.
loadTemplate(file, updateDatesForImages) ==
    LET parsed == file
        templateData == IF updateDatesForImages THEN updateImageDates(parsed) ELSE parsed
    IN Imported(templateData, FALSE)

\* loadJsonPageTemplate( dirName, fileName, widgetSelector, updateDatesForImages ):
\* pageTemplateData is built around templateData first; with the flag set
\* updateImageDates( templateData ) is called and its result is not used;
\* pageTemplateData is imported.
loadJsonPageTemplate(file, updateDatesForImages) ==
    LET templateData == file
        pageTemplateData == Imported(templateData, TRUE)
        unused == IF updateDatesForImages THEN updateImageDates(templateData) ELSE templateData
    IN pageTemplateData

\* A test is about to load a template file, with or without the flag.
InitTemplate ==
    /\ InitLayout
    /\ fault = NoFault
    /\ ui = UiIdle
    /\ switcher = SwitcherIdle
    /\ \E file \in TemplateFiles, flag \in BOOLEAN :
          tpl = [pc |-> "call", file |-> file, flag |-> flag, fn |-> None,
                 imported |-> Imported(<<>>, FALSE)]

LoadTemplate ==
    /\ tpl.pc = "call"
    /\ tpl' = [tpl EXCEPT !.pc = "done", !.fn = "loadTemplate",
                          !.imported = loadTemplate(tpl.file, tpl.flag)]
    /\ UNCHANGED <<currentView, views, pc, trace, calls, returns, renders, fault, ui, switcher>>

LoadJsonPageTemplate ==
    /\ tpl.pc = "call"
    /\ tpl' = [tpl EXCEPT !.pc = "done", !.fn = "loadJsonPageTemplate",
                          !.imported = loadJsonPageTemplate(tpl.file, tpl.flag)]
    /\ UNCHANGED <<currentView, views, pc, trace, calls, returns, renders, fault, ui, switcher>>

NextTemplate ==
    \/ LoadTemplate
    \/ LoadJsonPageTemplate

SpecTemplate == InitTemplate /\ [][NextTemplate]_vars

\* ------------------------------------------------- switcher control
\* The `value` argument of a call: true, false, or left out.
SwitcherValues == {"true", "false", "undefined"}

\* value: boolean = true, then Boolean( value ).
BooleanOf(value) == IF value = "undefined" THEN TRUE ELSE value = "true"

\* controlLabel.click(): the browser toggles the checkbox of the label.
click(checked, controlId) == [checked EXCEPT ![controlId] = ~@]

\* Faulty variant: the label is clicked whatever the checkbox says.
setSwitcherControlValue_alwaysClicks(checked, controlId, value) ==
    [checked |-> click(checked, controlId), clicks |-> 1]

\* setSwitcherControlValue( controlId, value ): isChecked() of the control's
\* checkbox, and one click on its label when it differs from Boolean( value ).
setSwitcherControlValue(checked, controlId, value) ==
    LET currentState == checked[controlId]
    IN IF currentState # BooleanOf(value)
       THEN [checked |-> click(checked, controlId), clicks |-> 1]
       ELSE [checked |-> checked, clicks |-> 0]

\* The editor panel as a test finds it: every switch on or off.
InitSwitcher ==
    /\ InitLayout
    /\ fault = NoFault
    /\ ui = UiIdle
    /\ tpl = TplIdle
    /\ \E checked \in [ControlIds -> BOOLEAN] :
          switcher = [checked |-> checked, log |-> <<>>]

\* A test calls setSwitcherControlValue and awaits it.
SetSwitcherControlValue ==
    \E controlId \in ControlIds, value \in SwitcherValues :
        /\ Len(switcher.log) < MaxSwitcherCalls
        /\ LET out == setSwitcherControlValue(switcher.checked, controlId, value)
           IN switcher' = [checked |-> out.checked,
                           log |-> Append(switcher.log,
                                          [controlId |-> controlId, value |-> value,
                                           before |-> switcher.checked,
                                           clicks |-> out.clicks,
                                           after |-> out.checked])]
        /\ UNCHANGED <<currentView, views, pc, trace, calls, returns, renders, fault, ui, tpl>>

NextSwitcher == SetSwitcherControlValue

SpecSwitcher == InitSwitcher /\ [][NextSwitcher]_vars

\* ------------------------------------------------------------ helpers
\* The last call has returned.
Returned == Idle /\ calls # <<>> /\ ~(fault.mode = "thrown" /\ fault.call = Len(calls))

LastCall == calls[Len(calls)]

Kind(id) == IF id = NoView THEN None ELSE views[id].kind

Binding(id) == IF id = NoView THEN None ELSE views[id].binding

\* What a region shows: the kind and the binding of its occupant.
Screen(cv) == [r \in Regions |-> <<Kind(cv[r]), Binding(cv[r])>>]

NonDefaultOps == {"showImportView", "showConnectView", "showSaveTemplateView", "showPreviewView"}

\* Number of calls so far.
NCalls == Len(calls)

\* The views that have been destroyed at least once.
DestroyedViews == {id \in 1..Len(views) : views[id].destroyed > 0}

\* The occupants of the four regions.
Occupants == {currentView[r] : r \in Regions} \ {NoView}

\* The screen "browse templates": default header parts and a collection view.
DefaultScreen(cv) ==
    /\ Kind(cv["tools"]) = "HeaderActionsView"
    /\ Kind(cv["menuArea"]) = "HeaderMenuView"
    /\ Kind(cv["logoArea"]) = "LogoView"
    /\ Kind(cv["modalContent"]) = "CollectionView"

\* ------------------------------------------------------------- claims

\* C1: immediately after showImportView, showConnectView, showSaveTemplateView
\* or showPreviewView returns, the menu region is empty, whatever it held
\* before the call.
C1_MenuEmptyAfterNonDefault ==
    (Returned /\ LastCall.op \in NonDefaultOps) => currentView["menuArea"] = NoView

\* A connect screen reached from a state whose menu region was occupied.
C1_Witness ==
    /\ Returned
    /\ LastCall.op = "showConnectView"
    /\ LastCall.before["menuArea"] # NoView
    /\ currentView["menuArea"] = NoView

\* C2: immediately after setHeaderDefaultParts returns, tools holds a
\* header-actions view, menu a header-menu view and logo the logo view, each
\* a live view and each the only occupant of its region.
C2_HeaderDefaultParts ==
    (Returned /\ LastCall.op = "setHeaderDefaultParts") =>
        /\ Kind(currentView["tools"]) = "HeaderActionsView"
        /\ Kind(currentView["menuArea"]) = "HeaderMenuView"
        /\ Kind(currentView["logoArea"]) = "LogoView"
        /\ \A r \in {"tools", "menuArea", "logoArea"} :
              /\ currentView[r] # NoView
              /\ views[currentView[r]].destroyed = 0
        /\ Cardinality({currentView[r] : r \in {"tools", "menuArea", "logoArea"}}) = 3

\* setHeaderDefaultParts called on a preview screen.
C2_Witness ==
    /\ Returned
    /\ LastCall.op = "setHeaderDefaultParts"
    /\ Kind(LastCall.before["tools"]) = "HeaderPreviewView"
    /\ LastCall.before["menuArea"] = NoView
    /\ Kind(currentView["menuArea"]) = "HeaderMenuView"

\* C3: from the default screen, after showSaveTemplateView( modelX ) the menu
\* region is empty and the content region holds a save-template view bound to
\* modelX; a following setHeaderDefaultParts() repopulates tools, menu and logo
\* with their default views and leaves the content region's occupant, the same
\* save-template view, in place.
C3_SaveThenHeaderDefaults ==
    /\ (/\ Returned
        /\ LastCall.op = "showSaveTemplateView"
        /\ DefaultScreen(LastCall.before))
       => /\ currentView["menuArea"] = NoView
          /\ Kind(currentView["modalContent"]) = "SaveTemplateView"
          /\ Binding(currentView["modalContent"]) = LastCall.arg
    /\ (/\ Returned
        /\ NCalls >= 2
        /\ LastCall.op = "setHeaderDefaultParts"
        /\ calls[NCalls - 1].op = "showSaveTemplateView"
        /\ DefaultScreen(calls[NCalls - 1].before))
       => /\ Kind(currentView["tools"]) = "HeaderActionsView"
          /\ Kind(currentView["menuArea"]) = "HeaderMenuView"
          /\ Kind(currentView["logoArea"]) = "LogoView"
          /\ currentView["modalContent"] = returns[NCalls - 1]["modalContent"]
          /\ Kind(currentView["modalContent"]) = "SaveTemplateView"
          /\ Binding(currentView["modalContent"]) = calls[NCalls - 1].arg
          /\ views[currentView["modalContent"]].destroyed = 0

\* The whole scenario with modelX: default screen, save-template, header defaults.
C3_Witness ==
    /\ Returned
    /\ NCalls >= 2
    /\ LastCall.op = "setHeaderDefaultParts"
    /\ calls[NCalls - 1].op = "showSaveTemplateView"
    /\ calls[NCalls - 1].arg = "modelX"
    /\ DefaultScreen(calls[NCalls - 1].before)
    /\ returns[NCalls - 1]["menuArea"] = NoView
    /\ Binding(currentView["modalContent"]) = "modelX"
    /\ Kind(currentView["menuArea"]) = "HeaderMenuView"

\* C4: after every show on a region the occupant is the view of that call, the
\* show released exactly the occupant it replaced, and every view that was
\* shown earlier and is no longer an occupant has been released exactly once,
\* while the occupants have not been released.
C4_ShowSequence ==
    /\ (trace # <<>> /\ trace[Len(trace)].stmt = "show") =>
          LET e == trace[Len(trace)]
          IN /\ e.now = Len(views)
             /\ currentView[e.region] = e.now
             /\ e.released = (IF e.was = NoView THEN {} ELSE {e.was})
    /\ \A id \in 1..Len(views) :
          views[id].destroyed = (IF id \in Occupants THEN 0 ELSE 1)

\* A third show on a region: two earlier occupants released, the last just now.
C4_Witness ==
    /\ trace # <<>>
    /\ trace[Len(trace)].stmt = "show"
    /\ trace[Len(trace)].region = "modalContent"
    /\ trace[Len(trace)].was # NoView
    /\ Cardinality({id \in DestroyedViews : views[id].kind = "CollectionView"}) >= 2
    /\ Kind(currentView["modalContent"]) = "CollectionView"

\* C5: reset() destroys the occupant if there is one and leaves the region
\* empty; on an empty region it changes nothing and releases nothing; no view
\* is ever released a second time.
C5_ResetState ==
    /\ (trace # <<>> /\ trace[Len(trace)].stmt = "reset") =>
          LET e == trace[Len(trace)]
          IN /\ e.now = NoView
             /\ currentView[e.region] = NoView
             /\ e.released = (IF e.was = NoView THEN {} ELSE {e.was})
    /\ \A id \in 1..Len(views) : views[id].destroyed <= 1

C5_ResetOnEmptyIsNoOp ==
    (/\ pc # <<>>
     /\ Head(pc).stmt = "reset"
     /\ currentView[Head(pc).region] = NoView
     /\ pc' = Tail(pc))
    => (currentView' = currentView /\ views' = views)

C5_Reset == []C5_ResetState /\ [][C5_ResetOnEmptyIsNoOp]_vars

\* A reset of the menu region that is already empty, its menu view having been
\* released by an earlier reset.
C5_Witness ==
    /\ trace # <<>>
    /\ trace[Len(trace)].stmt = "reset"
    /\ trace[Len(trace)].was = NoView
    /\ trace[Len(trace)].released = {}
    /\ \E id \in DestroyedViews : views[id].kind = "HeaderMenuView"
    /\ NCalls >= 2
    /\ calls[NCalls - 1].op \in NonDefaultOps

\* C6: with no filter changing the identifier, access level 0 selects the
\* insert-button template with button text null, level 1 the get-pro-button
\* template with "Go Pro" and level 2 the get-pro-button template with
\* "Go Expert".
C6_ActionButton ==
    \A i \in 1..Len(renders) :
        LET e == renders[i]
            level == e.templateData.accessLevel
        IN e.out.template = e.out.computed =>
            /\ level = 0 => (e.out.template = InsertButton /\ e.out.buttonText = "null")
            /\ level = 1 => (e.out.template = GetProButton /\ e.out.buttonText = "Go Pro")
            /\ level = 2 => (e.out.template = GetProButton /\ e.out.buttonText = "Go Expert")

\* Rows of level 0 and level 2 rendered, one of them through a registered
\* callback that keeps the identifier.
C6_Witness ==
    /\ Len(renders) = 2
    /\ renders[1].templateData.accessLevel = 0
    /\ renders[1].chain = <<>>
    /\ renders[1].out.template = InsertButton
    /\ renders[2].templateData.accessLevel = 2
    /\ renders[2].chain = <<"keep">>
    /\ renders[2].out.buttonText = "Go Expert"

\* C7 as stated: after showImportView, showConnectView or showSaveTemplateView
\* the tools region does not hold a preview-header view, and after
\* showConnectView or showSaveTemplateView the logo region does not hold a
\* back-navigation view.
C7_ResetsIrrelevantRegions ==
    (Returned /\ LastCall.op \in {"showImportView", "showConnectView", "showSaveTemplateView"}) =>
        /\ Kind(currentView["tools"]) # "HeaderPreviewView"
        /\ LastCall.op # "showImportView" => Kind(currentView["logoArea"]) # "HeaderBackView"

\* C7 amended: showImportView, showConnectView and showSaveTemplateView reset
\* the menu region only; the tools region keeps the occupant it had before the
\* call, unreleased, and after showConnectView and showSaveTemplateView so does
\* the logo region.
C7_OnlyMenuIsReset ==
    (Returned /\ LastCall.op \in {"showImportView", "showConnectView", "showSaveTemplateView"}) =>
        /\ \A i \in 1..Len(trace) : trace[i].stmt = "reset" => trace[i].region = "menuArea"
        /\ currentView["tools"] = LastCall.before["tools"]
        /\ currentView["tools"] # NoView => views[currentView["tools"]].destroyed = 0
        /\ LastCall.op # "showImportView" =>
              /\ currentView["logoArea"] = LastCall.before["logoArea"]
              /\ currentView["logoArea"] # NoView => views[currentView["logoArea"]].destroyed = 0

\* A connect screen that still carries the preview header and the back view
\* of the preview screen it was reached from.
C7_Witness ==
    /\ Returned
    /\ LastCall.op = "showConnectView"
    /\ Kind(LastCall.before["modalContent"]) = "PreviewView"
    /\ Kind(currentView["tools"]) = "HeaderPreviewView"
    /\ Kind(currentView["logoArea"]) = "HeaderBackView"

\* C8: a handler called twice in a row with equal arguments leaves each
\* region with the same view kind and binding as the first call did.
C8_Idempotent ==
    (/\ Returned
     /\ NCalls >= 2
     /\ LastCall.op = calls[NCalls - 1].op
     /\ LastCall.arg = calls[NCalls - 1].arg)
    => Screen(currentView) = Screen(returns[NCalls - 1])

\* setHeaderDefaultParts twice in a row, the first call on a screen without menu.
C8_Witness ==
    /\ Returned
    /\ NCalls >= 3
    /\ LastCall.op = "setHeaderDefaultParts"
    /\ calls[NCalls - 1].op = "setHeaderDefaultParts"
    /\ calls[NCalls - 1].before["menuArea"] = NoView
    /\ currentView["menuArea"] # returns[NCalls - 1]["menuArea"]
    /\ Screen(currentView) = Screen(returns[NCalls - 1])

\* The calls since the last non-default handler include setHeaderDefaultParts.
HeaderDefaultsSinceNonDefault ==
    \E i \in 1..NCalls :
        /\ calls[i].op = "setHeaderDefaultParts"
        /\ \A j \in (i + 1)..NCalls : calls[j].op \notin NonDefaultOps

\* C9 as stated: whenever the content region holds an import, connect,
\* save-template or preview view, the menu region is empty.
C9_NoMenuOnNonDefaultContent ==
    (Idle /\ Kind(currentView["modalContent"]) \in
                {"ImportView", "ConnectView", "SaveTemplateView", "PreviewView"})
    => currentView["menuArea"] = NoView

\* C9 amended: between handlers the menu region is occupied, by a header-menu
\* view, exactly when setHeaderDefaultParts has been called since the last
\* non-default handler, whatever the content region holds.
C9_MenuFollowsHeaderDefaults ==
    Idle =>
        /\ currentView["menuArea"] # NoView <=> HeaderDefaultsSinceNonDefault
        /\ currentView["menuArea"] # NoView => Kind(currentView["menuArea"]) = "HeaderMenuView"

\* A menu view beside a save-template view, after setHeaderDefaultParts.
C9_Witness ==
    /\ Idle
    /\ Kind(currentView["menuArea"]) = "HeaderMenuView"
    /\ Kind(currentView["modalContent"]) = "SaveTemplateView"
    /\ HeaderDefaultsSinceNonDefault

\* The mutation that resets the menu region / shows a view in region r.
IsMenuReset(e) == e.stmt = "reset" /\ e.region = "menuArea"

\* C10 as stated: in each non-default handler the first region mutation is
\* the reset of the menu region.
C10_MenuResetFirst ==
    (calls # <<>> /\ LastCall.op \in NonDefaultOps /\ trace # <<>>) => IsMenuReset(trace[1])

\* C10 amended: showImportView, showConnectView and showSaveTemplateView reset
\* the menu region first; showPreviewView shows the preview view in the content
\* region first and resets the menu region second, before any show on the tools
\* or the logo region.
C10_MenuResetOrder ==
    (calls # <<>> /\ LastCall.op \in NonDefaultOps /\ trace # <<>>) =>
        IF LastCall.op = "showPreviewView"
        THEN /\ trace[1].stmt = "show" /\ trace[1].region = "modalContent"
             /\ Len(trace) >= 2 => IsMenuReset(trace[2])
             /\ \A i \in 1..Len(trace) : trace[i].region \in {"tools", "logoArea"} => i > 2
        ELSE IsMenuReset(trace[1])

\* showPreviewView has returned: content first, menu second, then tools and logo.
C10_Witness ==
    /\ Returned
    /\ LastCall.op = "showPreviewView"
    /\ Len(trace) = 4
    /\ trace[1].region = "modalContent"
    /\ IsMenuReset(trace[2])
    /\ trace[2].was # NoView
    /\ trace[3].region = "tools"

\* The statements the handler of a call executes.
BodyOf(call) ==
    CASE call.op = "setHeaderDefaultParts" -> setHeaderDefaultParts
      [] call.op = "showTemplatesView" -> showTemplatesView(call.arg)
      [] call.op = "showImportView" -> showImportView
      [] call.op = "showConnectView" -> showConnectView(call.arg)
      [] call.op = "showSaveTemplateView" -> showSaveTemplateView(call.arg)
      [] call.op = "showPreviewView" -> showPreviewView(call.arg)

\* The trace is the executed part of the last call's body, pc the rest of it.
RunsLastCall ==
    calls # <<>> =>
        LET body == BodyOf(LastCall)
        IN /\ Len(trace) + Len(pc) = Len(body)
           /\ \A i \in 1..Len(trace) :
                 trace[i].stmt = body[i].stmt /\ trace[i].region = body[i].region
           /\ pc = SubSeq(body, Len(trace) + 1, Len(body))

\* C11: handlers run to completion without interleaving. Every call but the
\* running one has returned, each call (a logo click's included) started from
\* the regions as the previous call left them at its return, the mutations
\* since the last entry are those of the last call's body in order, a handler
\* is entered only when none is running, and regions change only by a step of
\* the running handler.
C11_State ==
    /\ Len(returns) = NCalls - (IF Idle THEN 0 ELSE 1)
    /\ \A i \in 1..NCalls :
          calls[i].before = (IF i = 1 THEN [r \in Regions |-> NoView] ELSE returns[i - 1])
    /\ RunsLastCall

C11_Step ==
    /\ calls' # calls => (pc = <<>> /\ currentView' = currentView /\ views' = views)
    /\ (currentView' # currentView \/ views' # views) =>
          (pc # <<>> /\ calls' = calls /\ pc' = Tail(pc))

C11_RunToCompletion == []C11_State /\ [][C11_Step]_vars

\* A logo click has started setHeaderDefaultParts, which has performed the
\* first of its three mutations; the call before it had returned.
C11_Witness ==
    /\ ~Idle
    /\ NCalls >= 3
    /\ LastCall.via = "library/open"
    /\ Len(trace) = 1
    /\ Len(pc) = 2
    /\ Len(returns) = NCalls - 1
    /\ LastCall.before = returns[NCalls - 1]

\* The occupant of region r is a live view the last call constructed.
FreshOccupant(r) ==
    /\ currentView[r] > LastCall.nviews
    /\ currentView[r] <= Len(views)
    /\ views[currentView[r]].destroyed = 0

\* C12: immediately after showPreviewView( templateModel ) returns, the content
\* region holds a preview view bound to the model's url, the tools region a
\* preview-header view bound to the model, the logo region a back-navigation
\* view, each constructed by this call, and the menu region is empty.
C12_PreviewScreen ==
    (Returned /\ LastCall.op = "showPreviewView") =>
        /\ Kind(currentView["modalContent"]) = "PreviewView"
        /\ Binding(currentView["modalContent"]) = Url(LastCall.arg)
        /\ Kind(currentView["tools"]) = "HeaderPreviewView"
        /\ Binding(currentView["tools"]) = LastCall.arg
        /\ Kind(currentView["logoArea"]) = "HeaderBackView"
        /\ \A r \in {"modalContent", "tools", "logoArea"} : FreshOccupant(r)
        /\ currentView["menuArea"] = NoView

\* The preview of templateB opened from the preview of templateA.
C12_Witness ==
    /\ Returned
    /\ LastCall.op = "showPreviewView"
    /\ LastCall.arg = "templateB"
    /\ Binding(LastCall.before["tools"]) = "templateA"
    /\ Binding(currentView["tools"]) = "templateB"
    /\ Binding(currentView["modalContent"]) = Url("templateB")

\* The kind of content view each of the four single-content handlers shows.
ContentKind(op) ==
    CASE op = "showTemplatesView" -> "CollectionView"
      [] op = "showImportView" -> "ImportView"
      [] op = "showConnectView" -> "ConnectView"
      [] op = "showSaveTemplateView" -> "SaveTemplateView"

\* C13: after showTemplatesView, showImportView, showConnectView or
\* showSaveTemplateView returns, the content region holds one view of the kind
\* the handler names, constructed by this call and bound to this call's
\* argument; after showImportView the logo region holds a back-navigation view.
C13_ContentView ==
    (/\ Returned
     /\ LastCall.op \in {"showTemplatesView", "showImportView",
                         "showConnectView", "showSaveTemplateView"})
    => /\ Kind(currentView["modalContent"]) = ContentKind(LastCall.op)
       /\ Binding(currentView["modalContent"]) = LastCall.arg
       /\ FreshOccupant("modalContent")
       /\ Cardinality({id \in (LastCall.nviews + 1)..Len(views) :
                          views[id].kind = ContentKind(LastCall.op)}) = 1
       /\ LastCall.op = "showImportView" =>
             (Kind(currentView["logoArea"]) = "HeaderBackView" /\ FreshOccupant("logoArea"))

\* showTemplatesView( collectionB ) right after showTemplatesView( collectionA ).
C13_Witness ==
    /\ Returned
    /\ NCalls >= 2
    /\ LastCall.op = "showTemplatesView"
    /\ LastCall.arg = "collectionB"
    /\ calls[NCalls - 1].op = "showTemplatesView"
    /\ calls[NCalls - 1].arg = "collectionA"
    /\ Binding(currentView["modalContent"]) = "collectionB"

\* C14: each region holds no view or one existing view, and no view occupies
\* two regions at the same time.
C14_ExclusiveOccupants ==
    /\ \A r \in Regions : currentView[r] \in 0..Len(views)
    /\ \A r1, r2 \in Regions :
          (r1 # r2 /\ currentView[r1] = currentView[r2]) => currentView[r1] = NoView
    /\ Cardinality(Occupants) = Cardinality({r \in Regions : currentView[r] # NoView})

\* All four regions occupied, by four different views, after earlier occupants
\* have been replaced.
C14_Witness ==
    /\ Cardinality(Occupants) = 4
    /\ Cardinality(DestroyedViews) >= 3
    /\ Kind(currentView["logoArea"]) = "LogoView"
    /\ Kind(currentView["modalContent"]) = "PreviewView"

\* The shows among the mutations of the running (or last) handler.
ShowsInTrace == {i \in 1..Len(trace) : trace[i].stmt = "show"}

\* C15: every view a handler installs was constructed during that same call,
\* is installed once, and was not released before it was installed; the
\* occupants of the regions are views that have never been released.
C15_FreshViews ==
    /\ calls # <<>> =>
          \A i \in ShowsInTrace :
              /\ trace[i].now > LastCall.nviews
              /\ trace[i].now <= Len(views)
              /\ \A j \in ShowsInTrace : j # i => trace[j].now # trace[i].now
              /\ \A j \in 1..i : trace[i].now \notin trace[j].released
    /\ \A id \in Occupants : views[id].destroyed = 0
    /\ \A i \in 1..NCalls : i > 1 => calls[i].nviews >= calls[i - 1].nviews

\* showPreviewView has installed three views of its own on a screen that
\* already held views it released.
C15_Witness ==
    /\ Returned
    /\ LastCall.op = "showPreviewView"
    /\ LastCall.nviews >= 4
    /\ Cardinality(ShowsInTrace) = 3
    /\ Cardinality({trace[i].now : i \in ShowsInTrace}) = 3
    /\ \E i \in ShowsInTrace : trace[i].released # {}

\* C16: getTemplateActionButton calls the action-button filter chain once, with
\* the computed identifier and templateData, and looks up exactly the
\* identifier the chain returns; when no callback changes it, that is the
\* computed identifier.
C16_FilteredIdentifier ==
    \A i \in 1..Len(renders) :
        LET e == renders[i]
            filtered == applyFilters(e.chain, e.out.computed, e.templateData)
        IN /\ e.out.filterCalls =
                 << [hook |-> ActionButtonHook, value |-> e.out.computed, data |-> e.templateData] >>
           /\ e.out.template = filtered
           /\ (\A k \in 1..Len(e.chain) : e.chain[k] = "keep") => e.out.template = e.out.computed

\* One row whose identifier a registered callback replaced, one row rendered
\* with a callback that keeps it.
C16_Witness ==
    /\ Len(renders) = 2
    /\ renders[1].chain = <<"activateLicense">>
    /\ renders[1].templateData.accessLevel = 1
    /\ renders[1].out.template # renders[1].out.computed
    /\ renders[2].chain = <<"keep">>
    /\ renders[2].out.template = renders[2].out.computed

\* The last mutation of the trace on region r, 0 when there is none.
LastMutationOn(r) ==
    LET on == {i \in 1..Len(trace) : trace[i].region = r}
    IN IF on = {} THEN 0 ELSE CHOOSE i \in on : \A j \in on : j <= i

\* C17: a failure of a sub-view constructor inside a handler is not caught,
\* retried or translated. The step that records it leaves the handler at once
\* and changes no region and no view; while the failed call is the last one,
\* the mutations performed are exactly those of the statements before the
\* failing show, each region holds what the last of them left in it (the
\* others what they held at entry), and the views they released stay released.
C17_State ==
    fault.mode = "thrown" =>
        LET body == BodyOf(calls[fault.call])
        IN /\ fault.step \in 1..Len(body)
           /\ body[fault.step].stmt = "show"
           /\ Len(returns) >= fault.call
           /\ fault.call < NCalls => calls[fault.call + 1].before = returns[fault.call]
           /\ fault.call = NCalls =>
                 /\ pc = <<>>
                 /\ Len(trace) = fault.step - 1
                 /\ \A i \in 1..Len(trace) :
                       /\ trace[i].stmt = body[i].stmt
                       /\ trace[i].region = body[i].region
                       /\ \A id \in trace[i].released : views[id].destroyed = 1
                 /\ \A r \in Regions :
                       currentView[r] = (IF LastMutationOn(r) = 0 THEN LastCall.before[r]
                                         ELSE trace[LastMutationOn(r)].now)
                 /\ returns[fault.call] = currentView

C17_Step ==
    fault' # fault =>
        /\ fault.mode = "armed"
        /\ fault'.mode = "thrown"
        /\ pc # <<>>
        /\ pc' = <<>>
        /\ currentView' = currentView
        /\ views' = views
        /\ trace' = trace
        /\ calls' = calls

C17_FailurePropagates == []C17_State /\ [][C17_Step]_vars

\* showPreviewView failed at the construction of the preview header: the
\* content region already holds the new preview view, the menu region has
\* been reset, the tools and logo regions still hold the default header parts.
C17_Witness ==
    /\ fault.mode = "thrown"
    /\ fault.call = NCalls
    /\ LastCall.op = "showPreviewView"
    /\ fault.step = 3
    /\ Kind(currentView["modalContent"]) = "PreviewView"
    /\ LastCall.before["menuArea"] # NoView
    /\ currentView["menuArea"] = NoView
    /\ Kind(currentView["tools"]) = "HeaderActionsView"
    /\ Kind(currentView["logoArea"]) = "LogoView"

\* Every handler can be called now, with every argument.
AllHandlersEnabled ==
    /\ ENABLED CallSetHeaderDefaultParts
    /\ ENABLED CallShowImportView
    /\ \A c \in Collections :
          ENABLED (CanCall /\ Begin("showTemplatesView", c, showTemplatesView(c)))
    /\ \A a \in ConnectArgs :
          ENABLED (CanCall /\ Begin("showConnectView", a, showConnectView(a)))
    /\ \A m \in ElementModels :
          ENABLED (CanCall /\ Begin("showSaveTemplateView", m, showSaveTemplateView(m)))
    /\ \A t \in TemplateModels :
          ENABLED (CanCall /\ Begin("showPreviewView", t, showPreviewView(t)))

\* Trace entry e is the mutation statement s asks for.
Applied(e, s) ==
    /\ e.stmt = s.stmt
    /\ e.region = s.region
    /\ IF s.stmt = "reset" THEN e.now = NoView
       ELSE /\ e.now \in 1..Len(views)
            /\ views[e.now].kind = s.kind
            /\ views[e.now].binding = s.binding

\* C18: between calls every handler is enabled on every screen (as long
\* as the behaviour's call budget lasts); a running handler can always take
\* its next step, has at most four mutations to perform in all, and each step
\* performs one of them; when it has returned, every mutation of its body has
\* been applied, in order.
C18_State ==
    /\ (Idle /\ NCalls < MaxCalls) => AllHandlersEnabled
    /\ ~Idle =>
          /\ ENABLED Step
          /\ Len(trace) + Len(pc) = Len(BodyOf(LastCall))
          /\ Len(BodyOf(LastCall)) <= 4
    /\ Returned =>
          /\ Len(trace) = Len(BodyOf(LastCall))
          /\ \A i \in 1..Len(trace) : Applied(trace[i], BodyOf(LastCall)[i])

C18_Step ==
    (pc # <<>> /\ pc' # pc) => (Len(pc') = Len(pc) - 1 /\ Len(trace') = Len(trace) + 1)

C18_EnabledAndTerminating == []C18_State /\ [][C18_Step]_vars

\* showPreviewView called on a preview screen has returned with its four
\* mutations applied, and every handler can be called again.
C18_Witness ==
    /\ Returned
    /\ NCalls < MaxCalls
    /\ LastCall.op = "showPreviewView"
    /\ Kind(LastCall.before["modalContent"]) = "PreviewView"
    /\ Len(trace) = 4
    /\ AllHandlersEnabled

\* C19: isUiStable makes at most `retries` before/after comparisons, also when
\* no two screenshots ever match, and stops as soon as a comparison reports
\* the screenshots equal.
C19_AtMostRetriesComparisons ==
    /\ ui.comparisons <= ui.retries
    /\ (ui.pc = "do" /\ ui.comparisons > 0) => ui.beforeImage # ui.afterImage

\* A date of the file is still in the text: a match that is not the current date.
RECURSIVE HasStoredDate(_)
HasStoredDate(text) ==
    /\ text # <<>>
    /\ \/ (DateAtHead(text) /\ SubSeq(text, 1, Len(CurrentDate)) # CurrentDate)
       \/ HasStoredDate(Tail(text))

\* C20: loadJsonPageTemplate imports, with updateDatesForImages set, content
\* in which every stored date is replaced by the current year/month, the same
\* content loadTemplate imports from that file with that flag; with the flag
\* unset it imports the file's data unchanged.
C20_JsonPageTemplateDates ==
    (tpl.pc = "done" /\ tpl.fn = "loadJsonPageTemplate") =>
        /\ tpl.imported.content = loadTemplate(tpl.file, tpl.flag).content
        /\ tpl.flag => ~HasStoredDate(tpl.imported.content)
        /\ ~tpl.flag => tpl.imported.content = tpl.file

\* The regions named in the table row of a handler: those it resets or populates.
RowRegions(op) ==
    CASE op = "setHeaderDefaultParts" -> {"tools", "menuArea", "logoArea"}
      [] op = "showTemplatesView" -> {"modalContent"}
      [] op = "showImportView" -> {"menuArea", "modalContent", "logoArea"}
      [] op = "showConnectView" -> {"menuArea", "modalContent"}
      [] op = "showSaveTemplateView" -> {"menuArea", "modalContent"}
      [] op = "showPreviewView" -> {"menuArea", "modalContent", "tools", "logoArea"}

\* C21: a handler changes only the regions of its table row. While it runs and
\* after it has returned (or failed), every other region holds the occupant it
\* held at entry, not released, and no mutation of the handler is on it; each
\* completed call returned with those regions as it found them. A resolution
\* of an action button changes no region, no view and no running handler.
C21_State ==
    /\ calls # <<>> =>
          \A r \in Regions \ RowRegions(LastCall.op) :
              /\ currentView[r] = LastCall.before[r]
              /\ currentView[r] # NoView => views[currentView[r]].destroyed = 0
              /\ \A i \in 1..Len(trace) : trace[i].region # r
    /\ \A i \in 1..Len(returns) :
          \A r \in Regions \ RowRegions(calls[i].op) : returns[i][r] = calls[i].before[r]

C21_Step ==
    renders' # renders =>
        /\ currentView' = currentView
        /\ views' = views
        /\ pc' = pc
        /\ trace' = trace

C21_FrameEffect == []C21_State /\ [][C21_Step]_vars

\* On the template list, a row has resolved its action button and then
\* setHeaderDefaultParts has rebuilt the header: the content region still holds
\* the collection view, the three header regions hold new views.
C21_Witness ==
    /\ Returned
    /\ Len(renders) >= 1
    /\ LastCall.op = "setHeaderDefaultParts"
    /\ Kind(LastCall.before["modalContent"]) = "CollectionView"
    /\ currentView["modalContent"] = LastCall.before["modalContent"]
    /\ \A r \in RowRegions("setHeaderDefaultParts") : currentView[r] # LastCall.before[r]

\* The last call of a non-default handler that has reset the menu region, 0
\* when there is none.
LastMenuReset ==
    LET done == {i \in 1..NCalls :
                    /\ calls[i].op \in NonDefaultOps
                    /\ i = NCalls => \E k \in 1..Len(trace) : IsMenuReset(trace[k])}
    IN IF done = {} THEN 0 ELSE CHOOSE i \in done : \A j \in done : j <= i

\* C22: only setHeaderDefaultParts populates the menu region. Every show on
\* the menu region is a mutation of setHeaderDefaultParts; from the moment a
\* non-default handler has reset the menu region, it is empty at every step,
\* as long as no setHeaderDefaultParts is called afterwards; and
\* showTemplatesView on a screen without the default header returns with the
\* menu, logo and tools regions as it found them.
C22_State ==
    /\ \A i \in 1..Len(trace) :
          (trace[i].stmt = "show" /\ trace[i].region = "menuArea") =>
              LastCall.op = "setHeaderDefaultParts"
    /\ (/\ LastMenuReset # 0
        /\ \A j \in (LastMenuReset + 1)..NCalls : calls[j].op # "setHeaderDefaultParts")
       => currentView["menuArea"] = NoView
    /\ (Returned /\ LastCall.op = "showTemplatesView") =>
          \A r \in {"menuArea", "logoArea", "tools"} : currentView[r] = LastCall.before[r]

C22_Step ==
    (currentView'["menuArea"] # NoView /\ currentView'["menuArea"] # currentView["menuArea"])
    => (calls # <<>> /\ LastCall.op = "setHeaderDefaultParts")

C22_MenuOnlyByHeaderDefaults == []C22_State /\ [][C22_Step]_vars

\* Back on the template list from a preview, by showTemplatesView alone, twice:
\* two calls after the preview emptied the menu region it is still empty, and the
\* tools and logo regions still hold the preview header and the back view.
C22_Witness ==
    /\ Returned
    /\ NCalls = 4
    /\ LastMenuReset = 2
    /\ calls[2].op = "showPreviewView"
    /\ calls[2].before["menuArea"] # NoView
    /\ calls[3].op = "showTemplatesView"
    /\ LastCall.op = "showTemplatesView"
    /\ LastCall.arg # calls[3].arg
    /\ Kind(currentView["modalContent"]) = "CollectionView"
    /\ currentView["menuArea"] = NoView
    /\ Kind(currentView["tools"]) = "HeaderPreviewView"
    /\ Kind(currentView["logoArea"]) = "HeaderBackView"

\* What getTemplateActionButton can hand to the renderer as button text.
ButtonTexts == {"null", "Go Pro", "Go Expert", "undefined"}

\* C23: for an access level outside {0, 1, 2}, getTemplateActionButton computes
\* the get-pro-button identifier, as for every level other than 0, never the
\* insert-button one, and renders with an undefined button text; the call
\* completes with a template and a text as for every other level.
C23_UnknownAccessLevel ==
    \A i \in 1..Len(renders) :
        LET e == renders[i]
            level == e.templateData.accessLevel
        IN /\ level # 0 => e.out.computed = GetProButton
           /\ level \notin {0, 1, 2} =>
                 /\ e.out.computed = GetProButton
                 /\ e.out.computed # InsertButton
                 /\ e.out.template = applyFilters(e.chain, GetProButton, e.templateData)
                 /\ e.out.template # InsertButton
                 /\ e.out.buttonText = "undefined"
           /\ e.out.buttonText \in ButtonTexts
           /\ e.out.buttonText = "undefined" <=> level \notin {0, 1, 2}

\* A row of access level 3 rendered with no callback registered, after a row
\* of level 0.
C23_Witness ==
    /\ Len(renders) = 2
    /\ renders[1].templateData.accessLevel = 0
    /\ renders[1].out.template = InsertButton
    /\ renders[2].templateData.accessLevel = 3
    /\ renders[2].chain = <<>>
    /\ renders[2].out.template = GetProButton
    /\ renders[2].out.buttonText = "undefined"

\* C24: the button text depends on the access level only: two resolutions of
\* rows with the same access level render with the same text, whatever their
\* filter chains returned, and the text is the table entry of the level.
C24_TextIndependentOfFilter ==
    /\ \A i, j \in 1..Len(renders) :
          renders[i].templateData.accessLevel = renders[j].templateData.accessLevel
          => renders[i].out.buttonText = renders[j].out.buttonText
    /\ \A i \in 1..Len(renders) :
          renders[i].out.buttonText =
              buttonTextsFromAccessLevel(renders[i].templateData.accessLevel)

\* Two rows of level 1, the identifier of the second replaced by a callback:
\* different templates, the same text.
C24_Witness ==
    /\ Len(renders) = 2
    /\ renders[1].templateData.accessLevel = 1
    /\ renders[2].templateData.accessLevel = 1
    /\ renders[1].chain = <<>>
    /\ renders[2].chain = <<"activateLicense">>
    /\ renders[1].out.template = renders[1].out.computed
    /\ renders[2].out.template # renders[2].out.computed
    /\ renders[1].out.buttonText = "Go Pro"
    /\ renders[2].out.buttonText = "Go Pro"

RECURSIVE RunBody(_, _)
\* A handler body executed to completion on a layout, statement by statement.
RunBody(st, body) ==
    IF body = <<>> THEN st ELSE RunBody(Exec(st, Head(body)), Tail(body))

\* What the regions of a layout show: kind and binding of each occupant.
ScreenOf(st) ==
    [r \in Regions |->
        IF st.cv[r] = NoView THEN <<None, None>>
        ELSE <<st.vs[st.cv[r]].kind, st.vs[st.cv[r]].binding>>]

\* The default screen with the template list bound to collection c.
DefaultScreenOf(c) ==
    [r \in Regions |->
        CASE r = "tools" -> <<"HeaderActionsView", None>>
          [] r = "menuArea" -> <<"HeaderMenuView", None>>
          [] r = "logoArea" -> <<"LogoView", getLogoOptions.title>>
          [] r = "modalContent" -> <<"CollectionView", c>>]

\* Layout `to` is the default screen for c reached from layout `from`: four new
\* live occupants, and every view of `from` released exactly once.
RecoveredFrom(from, to, c) ==
    /\ ScreenOf(to) = DefaultScreenOf(c)
    /\ Len(to.vs) = Len(from.vs) + 4
    /\ \A r \in Regions : to.cv[r] > Len(from.vs) /\ to.vs[to.cv[r]].destroyed = 0
    /\ Cardinality({to.cv[r] : r \in Regions}) = 4
    /\ \A id \in 1..Len(from.vs) : to.vs[id].destroyed = 1

\* setHeaderDefaultParts then showTemplatesView( c ), and the other order.
HeaderThenTemplates(st, c) == RunBody(RunBody(st, setHeaderDefaultParts), showTemplatesView(c))
TemplatesThenHeader(st, c) == RunBody(RunBody(st, showTemplatesView(c)), setHeaderDefaultParts)

\* C25: from every state between two calls, the states a failed handler left
\* behind included, setHeaderDefaultParts and showTemplatesView( c ) can be
\* called, and in either order they end on the same screen: tools = actions
\* view, menu = menu view, logo = logo view, content = the collection view
\* bound to c, every view held or created before released exactly once; and a
\* behaviour that makes the two calls, in either order and without failure, is
\* in the state so computed.
C25_DefaultScreenRecoverable ==
    /\ Idle =>
          \A c \in Collections :
              LET st == LayoutState(currentView, views)
                  ht == HeaderThenTemplates(st, c)
                  th == TemplatesThenHeader(st, c)
              IN /\ RecoveredFrom(st, ht, c)
                 /\ RecoveredFrom(st, th, c)
                 /\ ScreenOf(ht) = ScreenOf(th)
                 /\ [id \in 1..Len(st.vs) |-> ht.vs[id].destroyed] =
                       [id \in 1..Len(st.vs) |-> th.vs[id].destroyed]
    /\ (Idle /\ NCalls < MaxFaultCalls) =>
          /\ ENABLED CallSetHeaderDefaultParts
          /\ \A c \in Collections :
                ENABLED (CanCall /\ Begin("showTemplatesView", c, showTemplatesView(c)))
    /\ (/\ Returned
        /\ NCalls >= 2
        /\ ~(fault.mode = "thrown" /\ fault.call = NCalls - 1)
        /\ {LastCall.op, calls[NCalls - 1].op} = {"setHeaderDefaultParts", "showTemplatesView"})
       => LET c == IF LastCall.op = "showTemplatesView" THEN LastCall.arg
                   ELSE calls[NCalls - 1].arg
              from == LayoutState(calls[NCalls - 1].before,
                                  SubSeq(views, 1, calls[NCalls - 1].nviews))
              to == LayoutState(currentView, views)
          IN /\ RecoveredFrom(from, to, c)
             /\ DefaultScreen(currentView)
             /\ ScreenOf(to) = ScreenOf(HeaderThenTemplates(from, c))

\* The default screen recovered from what a failed showPreviewView left
\* behind: a preview view in the content region and no header.
\* showTemplatesView has released the preview view, once, and
\* setHeaderDefaultParts has built the header.
C25_Witness ==
    /\ Returned
    /\ NCalls = 3
    /\ fault.mode = "thrown"
    /\ fault.call = 1
    /\ fault.step = 3
    /\ calls[1].op = "showPreviewView"
    /\ calls[2].op = "showTemplatesView"
    /\ LastCall.op = "setHeaderDefaultParts"
    /\ Kind(calls[2].before["modalContent"]) = "PreviewView"
    /\ calls[2].before["tools"] = NoView
    /\ ScreenOf(LayoutState(currentView, views)) = DefaultScreenOf(calls[2].arg)
    /\ DestroyedViews = {calls[2].before["modalContent"]}

\* C26: setSwitcherControlValue( controlId, value ) clicks the label once when
\* the checkbox differs from value and not at all when it equals value; after
\* the call the switch equals value and no other switch has changed; a call
\* that follows a call with the same control and value performs no click.
C26_SwitcherSetsValue ==
    /\ \A i \in 1..Len(switcher.log) :
          LET e == switcher.log[i]
          IN /\ e.clicks = (IF e.before[e.controlId] # BooleanOf(e.value) THEN 1 ELSE 0)
             /\ e.after[e.controlId] = BooleanOf(e.value)
             /\ \A c \in ControlIds \ {e.controlId} : e.after[c] = e.before[c]
    /\ \A i \in 1..(Len(switcher.log) - 1) :
          (/\ switcher.log[i + 1].controlId = switcher.log[i].controlId
           /\ BooleanOf(switcher.log[i + 1].value) = BooleanOf(switcher.log[i].value))
          => (switcher.log[i + 1].clicks = 0 /\ switcher.log[i + 1].after = switcher.log[i].after)
    /\ switcher.log # <<>> => switcher.checked = switcher.log[Len(switcher.log)].after

\* The mask switch, off, set to true twice: one click, then none; the second
\* call leaves the value out.
C26_Witness ==
    /\ Len(switcher.log) = 2
    /\ switcher.log[1].controlId = "_mask_switch"
    /\ switcher.log[1].value = "true"
    /\ switcher.log[1].before["_mask_switch"] = FALSE
    /\ switcher.log[1].clicks = 1
    /\ switcher.log[2].controlId = "_mask_switch"
    /\ switcher.log[2].value = "undefined"
    /\ switcher.log[2].clicks = 0
    /\ switcher.checked["_mask_switch"] = TRUE

====
